---- MODULE Spec2Model ----
(***************************************************************************)
(* A model of pyhessian.py: class HessianEstimator.                       *)
(*                                                                         *)
(* A tensor is a record [shape, data]: shape <<r, c>> with data a sequence *)
(* of r rows of c elements, or shape <<n>> with data a sequence of n       *)
(* elements.  A call's outcome is a record [err, val]: err = "none" and    *)
(* the returned value, or the exception the call ends with.                *)
(***************************************************************************)
EXTENDS Integers, Sequences, FiniteSets, TLC

VARIABLES
    layers,      \* self.layers
    P,           \* self.P
    params,      \* self.params: the list of 2L tensors
    cost,        \* self.cost: the cost expression over the parameters
    X,           \* self.X: the examples' inputs
    y,           \* self.y: the examples' labels
    batch_size,  \* self.batch_size
    pc,          \* position of the caller
    op,          \* the method called last
    arg,         \* its argument
    ret,         \* its outcome
    loc          \* the locals of the method in progress

vars == <<layers, P, params, cost, X, y, batch_size, pc, op, arg, ret, loc>>

(************************* bounds of the model *****************************)
\* largest parameter count P of a schema in the codec specification
MaxP == 6
\* parameter and vector entries range over 0..MaxVal
MaxVal == 1

None == <<>>
Ok(v) == [err |-> "none", val |-> v]
Err(e) == [err |-> e, val |-> None]

\* the sequence s, held as a tuple of its elements
AsSeq(s) == s \o <<>>

(************************* sequences and numpy *****************************)
RECURSIVE SumSeq(_)
SumSeq(s) == IF s = <<>> THEN 0 ELSE Head(s) + SumSeq(Tail(s))

Min(a, b) == IF a < b THEN a ELSE b

\* s[a:b] of Python and TensorFlow, 0-based, bounds clamped to the length
Slice(s, a, b) ==
    LET hi == Min(b, Len(s))
    IN  IF a >= hi THEN <<>> ELSE AsSeq([k \in 1..(hi - a) |-> s[a + k]])

\* np.roll(s, -1)
RollLeft(s) == IF s = <<>> THEN <<>> ELSE Tail(s) \o <<Head(s)>>

\* s[:-1]
ButLast(s) == Slice(s, 0, Len(s) - 1)

\* np.multiply(a, b) of two sequences of one length
Multiply(a, b) == [k \in 1..Len(a) |-> a[k] * b[k]]

\* np.cumsum(s)
CumSum(s) == [k \in 1..Len(s) |-> SumSeq(Slice(s, 0, k))]

(****************************** tensors ************************************)
Tensor1(s) == [shape |-> <<Len(s)>>, data |-> s]

Size(shape) == IF Len(shape) = 1 THEN shape[1] ELSE shape[1] * shape[2]

\* the elements of a tensor in row-major order
RowMajor(t) ==
    IF Len(t.shape) = 1 THEN t.data
    ELSE LET c == t.shape[2]
         IN  AsSeq([k \in 1..(t.shape[1] * c) |->
                 t.data[((k - 1) \div c) + 1][((k - 1) % c) + 1]])

\* the tensor of a shape whose row-major elements are s
FromRowMajor(s, shape) ==
    IF Len(shape) = 1 THEN [shape |-> shape, data |-> s]
    ELSE [shape |-> shape,
          data |-> AsSeq([i \in 1..shape[1] |->
                      AsSeq([j \in 1..shape[2] |-> s[(i - 1) * shape[2] + j]])])]

\* tf.reshape(t, shape): an outcome, an error when the sizes differ
Reshape(t, shape) ==
    IF Size(t.shape) # Size(shape) THEN Err("ValueError")
    ELSE Ok(FromRowMajor(RowMajor(t), shape))

\* tf.reshape(t, [-1])
ReshapeFlat(t) == FromRowMajor(RowMajor(t), <<Size(t.shape)>>)

RECURSIVE ConcatData(_)
ConcatData(ts) == IF ts = <<>> THEN <<>> ELSE Head(ts).data \o ConcatData(Tail(ts))

\* tf.concat(ts, axis=0) of 1-D tensors
Concat(ts) == Tensor1(ConcatData(ts))

\* the elements of a list of tensors, each in row-major order
RECURSIVE AllElements(_)
AllElements(ps) ==
    IF ps = <<>> THEN <<>> ELSE RowMajor(Head(ps)) \o AllElements(Tail(ps))

(**************************** the schema ***********************************)
\* L, the number of layers: len(self.layers) - 1
NumLayers(ls) == Len(ls) - 1

\* self.P of __init__
ParamCount(ls) ==
    SumSeq([l \in 1..(Len(ls) - 1) |-> ls[l] * ls[l + 1] + ls[l + 1]])

\* the shapes of the 2L tensors of a schema: L weights, then L biases
Shapes(ls) ==
    [l \in 1..NumLayers(ls) |-> <<ls[l], ls[l + 1]>>]
        \o [l \in 1..NumLayers(ls) |-> <<ls[l + 1]>>]

ValidSchema(ls) == Len(ls) >= 2 /\ \A l \in 1..Len(ls) : ls[l] >= 1

\* the valid schemas of at most maxP parameters
Schemas(maxP) ==
    {ls \in UNION {[1..n -> 1..maxP] : n \in 2..((maxP \div 2) + 1)} :
        ParamCount(ls) <= maxP}

Tensors(shape, vals) ==
    IF Len(shape) = 1
    THEN {[shape |-> shape, data |-> d] : d \in [1..shape[1] -> vals]}
    ELSE {[shape |-> shape, data |-> d] :
             d \in [1..shape[1] -> [1..shape[2] -> vals]]}

\* the tensor lists of a sequence of shapes
RECURSIVE TensorLists(_, _)
TensorLists(shapes, vals) ==
    IF shapes = <<>> THEN {<<>>}
    ELSE {<<t>> \o rest : t \in Tensors(Head(shapes), vals),
                          rest \in TensorLists(Tail(shapes), vals)}

\* same length, same shapes and same elements, in the same order
SameTensor(a, b) == a.shape = b.shape /\ a.data = b.data
SameList(p, q) ==
    Len(p) = Len(q) /\ \A t \in 1..Len(p) : SameTensor(p[t], q[t])

(************************ flatten and unflatten ****************************)
\* flatten(self, params)
flatten(ls, ps) ==
    LET L == NumLayers(ls)
        ws == [l \in 1..L |-> Reshape(ps[l], <<ls[l] * ls[l + 1]>>)]
    IN  IF Len(ps) < L THEN Err("IndexError")
        ELSE IF \E l \in 1..L : ws[l].err # "none" THEN Err("ValueError")
        ELSE IF Len(ps) < 2 * L THEN Err("IndexError")
        ELSE LET weights == Concat([l \in 1..L |-> ws[l].val])
                 biases == Concat([l \in 1..L |-> ps[l + L]])
             IN  Ok(Concat(<<weights, biases>>))

\* flatten_v2(self, params)
flatten_v2(ls, ps) ==
    IF Len(ps) < Len(ls) THEN Err("IndexError")
    ELSE Ok(Concat([l \in 1..Len(ls) |-> ReshapeFlat(ps[l])]))

\* winds of unflatten
WeightInds(ls) == CumSum(<<0>> \o Multiply(ButLast(RollLeft(ls)), ButLast(ls)))

\* binds computed from the widths of the layers' inputs, layers[:-1], in
\* place of the widths of their outputs, layers[1:]
BiasIndsFromInputWidths(ls) ==
    LET winds == WeightInds(ls)
        last == winds[Len(winds)]
        cs == CumSum(ButLast(ls))
    IN  <<last>> \o [k \in 1..Len(cs) |-> last + cs[k]]

\* binds of unflatten
BiasInds(ls) ==
    LET winds == WeightInds(ls)
        last == winds[Len(winds)]
        cs == CumSum(Tail(ls))
    IN  <<last>> \o [k \in 1..Len(cs) |-> last + cs[k]]

\* unflatten(self, params_flat)
unflatten(ls, flat) ==
    LET L == NumLayers(ls)
        winds == WeightInds(ls)
        binds == BiasInds(ls)
        ws == [l \in 1..L |->
                 Reshape(Tensor1(Slice(flat.data, winds[l], winds[l + 1])),
                         <<ls[l], ls[l + 1]>>)]
        bs == [l \in 1..L |->
                 Reshape(Tensor1(Slice(flat.data, binds[l], binds[l + 1])),
                         <<ls[l + 1]>>)]
    IN  IF \E l \in 1..L : ws[l].err # "none" \/ bs[l].err # "none"
        THEN Err("ValueError")
        ELSE Ok([l \in 1..L |-> ws[l].val] \o [l \in 1..L |-> bs[l].val])

(******************* the codec specification *******************************)
Vals == 0..MaxVal

\* the vectors a caller hands to unflatten: one too short, exact, one too long
FlatInputs(n) ==
    {Tensor1([k \in 1..m |-> (k + s) % (MaxVal + 1)]) :
        m \in {n - 1, n, n + 1}, s \in Vals}

InitCodec ==
    /\ layers \in Schemas(MaxP)
    /\ P = ParamCount(layers)
    /\ params \in TensorLists(Shapes(layers), Vals)
    /\ cost = None /\ X = None /\ y = None /\ batch_size = 1
    /\ pc = "ready" /\ op = "init" /\ arg = None /\ ret = None /\ loc = None

CallFlatten ==
    /\ pc = "ready"
    /\ op' = "flatten" /\ arg' = params /\ ret' = flatten(layers, params)
    /\ pc' = "returned"
    /\ UNCHANGED <<layers, P, params, cost, X, y, batch_size, loc>>

CallFlattenV2 ==
    /\ pc = "ready"
    /\ op' = "flatten_v2" /\ arg' = params /\ ret' = flatten_v2(layers, params)
    /\ pc' = "returned"
    /\ UNCHANGED <<layers, P, params, cost, X, y, batch_size, loc>>

CallUnflatten ==
    /\ pc = "ready"
    /\ \E flat \in FlatInputs(P) :
          /\ op' = "unflatten" /\ arg' = flat /\ ret' = unflatten(layers, flat)
    /\ pc' = "returned"
    /\ UNCHANGED <<layers, P, params, cost, X, y, batch_size, loc>>

\* unflatten applied to what flatten returned
CallUnflattenOfFlatten ==
    /\ pc = "returned" /\ op = "flatten" /\ ret.err = "none"
    /\ op' = "unflatten_flatten" /\ ret' = unflatten(layers, ret.val)
    /\ UNCHANGED <<layers, P, params, cost, X, y, batch_size, pc, arg, loc>>

\* the caller drops the outcome of the last call and goes on
Discard ==
    /\ pc = "returned"
    /\ pc' = "ready" /\ op' = "init" /\ arg' = None /\ ret' = None /\ loc' = None
    /\ UNCHANGED <<layers, P, params, cost, X, y, batch_size>>

NextCodec ==
    \/ Discard
    \/ CallFlatten
    \/ CallFlattenV2
    \/ CallUnflatten
    \/ CallUnflattenOfFlatten

SpecCodec == InitCodec /\ [][NextCodec]_vars

(* C1: unflatten(flatten(p)) returns, without an error, a list of the same *)
(* length as p whose tensors have the same shapes and the same elements,   *)
(* in the same order.                                                      *)
RoundTrip ==
    op = "unflatten_flatten" =>
        /\ ret.err = "none"
        /\ Len(ret.val) = 2 * NumLayers(layers)
        /\ SameList(ret.val, params)

\* a round trip of a 2 x 2 weight matrix that is not symmetric, with its bias
RoundTripWitness ==
    /\ op = "unflatten_flatten"
    /\ layers = <<2, 2>>
    /\ params[1].data[1][2] # params[1].data[2][1]
    /\ params[2].data[1] # params[2].data[2]
    /\ ret.err = "none"

\* a round trip through a schema of two layers
RoundTripTwoLayers ==
    op = "unflatten_flatten" /\ Len(layers) = 3 /\ ret.err = "none"

(* C2: unflatten fails whenever the length of its argument differs from P, *)
(* shorter or longer, and returns no list then.                            *)
UnflattenRejectsWrongLength ==
    (op = "unflatten" /\ Len(arg.data) # P) => ret.err # "none"

\* what unflatten does: a vector shorter than P is refused, in tf.reshape
UnflattenRejectsShort ==
    (op = "unflatten" /\ Len(arg.data) < P) => ret.err # "none"

(* C10: flatten_v2 returns the concatenation of every tensor of the list   *)
(* it receives, each in row-major order, in the order received: a vector   *)
(* of length P.                                                            *)
FlattenV2AllEntries ==
    op = "flatten_v2" =>
        /\ ret.err = "none"
        /\ Len(ret.val.data) = P
        /\ ret.val.data = AllElements(arg)

\* what flatten_v2 does: the first len(layers) tensors only
FlattenV2FirstEntries ==
    op = "flatten_v2" =>
        /\ ret.err = "none"
        /\ ret.val.data = AllElements(Slice(arg, 0, Len(layers)))

(******************* the construction specification ************************)
\* longest layers argument handed to the constructor
MaxLen == 3
\* widest layer handed to the constructor
MaxWidth == 2
\* largest batch_size handed to the constructor
MaxB == 2

LayerArgs == UNION {[1..n -> (-1)..MaxWidth] : n \in 0..MaxLen}

InitCtor ==
    /\ layers = None /\ P = None /\ params = None /\ cost = None
    /\ X = None /\ y = None /\ batch_size = None
    /\ pc = "new" /\ op = "none" /\ ret = None /\ loc = None
    /\ arg \in [layers : LayerArgs, batch_size : 1..MaxB, cost : {None},
                 params : {None}, X : {None}, y : {None}]

\* __init__(self, layers, cost_fun, cost, model_fun, params, X, y, batch_size)
Construct ==
    /\ pc = "new"
    /\ layers' = arg.layers
    /\ P' = ParamCount(arg.layers)
    /\ cost' = arg.cost /\ params' = arg.params
    /\ X' = arg.X /\ y' = arg.y
    /\ batch_size' = arg.batch_size
    /\ pc' = "ready" /\ op' = "__init__" /\ ret' = Ok(None)
    /\ UNCHANGED <<arg, loc>>

NextCtor == Construct

SpecCtor == InitCtor /\ [][NextCtor]_vars

(* C7: constructing an estimator with fewer than two layer widths, or with *)
(* a width that is zero or negative, fails: no instance and no P result.   *)
SchemaErrorOnInvalidLayers ==
    (op = "__init__" /\ ~ValidSchema(arg.layers)) => ret.err # "none"

(********************* differentiable expressions **************************)
(* The graph engine is modelled on polynomials of degree at most two over  *)
(* the parameter elements.  The variables are numbered 1..n through the    *)
(* parameter list, tensor after tensor, each in row-major order.  A        *)
(* polynomial is a record [c, lin, quad]:                                  *)
(*     c + SUM lin[a] * v_a + SUM quad[a][b] * v_a * v_b.                  *)
(***************************************************************************)
RECURSIVE SumTo(_, _)
SumTo(f, n) == IF n = 0 THEN 0 ELSE f[n] + SumTo(f, n - 1)

PConst(n, k) ==
    [c |-> k, lin |-> AsSeq([a \in 1..n |-> 0]),
     quad |-> AsSeq([a \in 1..n |-> AsSeq([b \in 1..n |-> 0])])]

PVar(n, v) ==
    [c |-> 0, lin |-> AsSeq([a \in 1..n |-> IF a = v THEN 1 ELSE 0]),
     quad |-> AsSeq([a \in 1..n |-> AsSeq([b \in 1..n |-> 0])])]

PAdd(p, q) ==
    LET n == Len(p.lin)
    IN  [c |-> p.c + q.c,
         lin |-> AsSeq([a \in 1..n |-> p.lin[a] + q.lin[a]]),
         quad |-> AsSeq([a \in 1..n |->
                     AsSeq([b \in 1..n |-> p.quad[a][b] + q.quad[a][b]])])]

PScale(k, p) ==
    LET n == Len(p.lin)
    IN  [c |-> k * p.c,
         lin |-> AsSeq([a \in 1..n |-> k * p.lin[a]]),
         quad |-> AsSeq([a \in 1..n |-> AsSeq([b \in 1..n |-> k * p.quad[a][b]])])]

\* the product of two polynomials of degree at most one
PMul(p, q) ==
    LET n == Len(p.lin)
    IN  [c |-> p.c * q.c,
         lin |-> AsSeq([a \in 1..n |-> p.c * q.lin[a] + q.c * p.lin[a]]),
         quad |-> AsSeq([a \in 1..n |->
                     AsSeq([b \in 1..n |-> p.lin[a] * q.lin[b]])])]

RECURSIVE PSum(_, _)
PSum(n, ps) == IF ps = <<>> THEN PConst(n, 0) ELSE PAdd(Head(ps), PSum(n, Tail(ps)))

\* the partial derivative of p by the variable v
Deriv(p, v) ==
    LET n == Len(p.lin)
    IN  [c |-> p.lin[v],
         lin |-> AsSeq([a \in 1..n |-> p.quad[a][v] + p.quad[v][a]]),
         quad |-> AsSeq([a \in 1..n |-> AsSeq([b \in 1..n |-> 0])])]

\* the value of p where the variables have the values theta
Eval(p, theta) ==
    LET n == Len(p.lin)
    IN  p.c + SumTo([a \in 1..n |-> p.lin[a] * theta[a]], n)
            + SumTo([a \in 1..n |->
                       SumTo([b \in 1..n |-> p.quad[a][b] * theta[a] * theta[b]], n)],
                    n)

\* the tensor of the shape of t whose elements are those of the function f
\* at the elements of t
MapTensor(t, f) ==
    IF Len(t.shape) = 1
    THEN [shape |-> t.shape,
          data |-> AsSeq([k \in 1..t.shape[1] |-> f[t.data[k]]])]
    ELSE [shape |-> t.shape,
          data |-> AsSeq([i \in 1..t.shape[1] |->
                      AsSeq([j \in 1..t.shape[2] |-> f[t.data[i][j]]])])]

\* the number of the first variable of tensor t, less one
VarBase(ls, t) == SumSeq([u \in 1..(t - 1) |-> Size(Shapes(ls)[u])])

\* the graph node of tensor t of the parameter list: its elements' variables
VarTensor(ls, t) ==
    FromRowMajor([k \in 1..Size(Shapes(ls)[t]) |-> VarBase(ls, t) + k],
                 Shapes(ls)[t])

\* the graph nodes of self.params
VarParams(ls) == [t \in 1..(2 * NumLayers(ls)) |-> VarTensor(ls, t)]

\* the values of the variables: the elements of the parameter tensors
Theta(ps) == AllElements(ps)

\* tf.gradients(ys, xs): for each tensor of xs, the gradient of sum(ys)
Gradients(n, ys, xs) ==
    LET total == PSum(n, ys)
        d == AsSeq([v \in 1..n |-> Deriv(total, v)])
    IN  AsSeq([t \in 1..Len(xs) |-> MapTensor(xs[t], d)])

\* tf.stop_gradient(v): the value of v, constant for differentiation
StopGradient(v) == v

\* tf.math.multiply(g, v) of a vector of expressions and a constant vector:
\* elementwise, a vector of length one being broadcast
MultiplyConst(g, v) ==
    LET n == IF Len(g.data) = 1 THEN Len(v.data) ELSE Len(g.data)
    IN  [shape |-> <<n>>,
         data |-> AsSeq([k \in 1..n |->
                     PScale(v.data[IF Len(v.data) = 1 THEN 1 ELSE k],
                            g.data[IF Len(g.data) = 1 THEN 1 ELSE k])])]

\* whether tf.math.multiply takes vectors of the lengths a and b
Broadcastable(a, b) == a = b \/ a = 1 \/ b = 1

\* the engine evaluating a vector of expressions at the parameters' values
Run(t, theta) ==
    [shape |-> t.shape,
     data |-> AsSeq([k \in 1..Len(t.data) |-> Eval(t.data[k], theta)])]

(********************* the model and the cost ******************************)
\* model_fun(x, params): a linear unit over every element of the tensors it
\* is given, weights multiplied by the input, biases added; one output for
\* each example of x
model_fun(n, xs, ps) ==
    [e \in 1..Len(xs) |->
        PSum(n, [t \in 1..Len(ps) |->
                   PSum(n, [k \in 1..Size(ps[t].shape) |->
                              IF Len(ps[t].shape) = 2
                              THEN PScale(xs[e], PVar(n, RowMajor(ps[t])[k]))
                              ELSE PVar(n, RowMajor(ps[t])[k])])])]

\* cost_fun(y, yhat_logits, params): the squared error, summed over examples
cost_fun(n, ys, yhats, ps) ==
    PSum(n, [e \in 1..Len(ys) |->
               LET r == PAdd(yhats[e], PConst(n, 0 - ys[e])) IN PMul(r, r)])

(*********************** the Hessian estimators ****************************)
\* get_Hv_op without its second gradient: the product of the cost gradient
\* with v is returned as it is
get_Hv_op_SingleGradient(ls, cst, v) ==
    LET n == ParamCount(ls)
        ps == VarParams(ls)
        cost_gradient == flatten(ls, Gradients(n, <<cst>>, ps))
    IN  IF cost_gradient.err # "none" THEN cost_gradient
        ELSE IF ~Broadcastable(Len(cost_gradient.val.data), Len(v.data))
        THEN Err("ValueError")
        ELSE Ok(MultiplyConst(cost_gradient.val, StopGradient(v)))

\* get_Hv_op(self, v)
get_Hv_op(ls, cst, v) ==
    LET n == ParamCount(ls)
        ps == VarParams(ls)
        cost_gradient == flatten(ls, Gradients(n, <<cst>>, ps))
    IN  IF cost_gradient.err # "none" THEN cost_gradient
        ELSE IF ~Broadcastable(Len(cost_gradient.val.data), Len(v.data))
        THEN Err("ValueError")
        ELSE LET vprod == MultiplyConst(cost_gradient.val, StopGradient(v))
             IN  flatten(ls, Gradients(n, vprod.data, ps))

\* tf.eye(n, n)
Eye(n) == [i \in 1..n |-> [j \in 1..n |-> IF i = j THEN 1 ELSE 0]]

\* tf.map_fn writing its results in the order its iterations end
MapFnStoreInArrivalOrder(out, i, done, row) ==
    [out EXCEPT ![Cardinality(done) + 1] = row]

\* tf.map_fn writing the result of row i of its input into its output
MapFnStore(out, i, done, row) == [out EXCEPT ![i] = row]

(******************* the Hessian specification *****************************)
\* largest parameter count P of a schema in the Hessian specification
MaxPH == 4

\* the directions handed to get_Hv_op: at most two entries are not zero
HvInputs(n) ==
    {Tensor1(v) : v \in {w \in [1..n -> Vals] :
                            Cardinality({k \in 1..n : w[k] # 0}) <= 2}}

\* the parameter values of the Hessian and the OPG specifications: element
\* number k of the list has the value (a * k + b) mod (MaxVal + 1); for two
\* parameters these are all the pairs of values
PatternParams(ls) ==
    {[t \in 1..(2 * NumLayers(ls)) |->
         MapTensor(VarTensor(ls, t),
                   [k \in 1..ParamCount(ls) |-> (a * k + b) % (MaxVal + 1)])] :
        a \in Vals, b \in Vals}

InitH ==
    /\ layers \in Schemas(MaxPH)
    /\ P = ParamCount(layers)
    /\ params \in PatternParams(layers)
    /\ X \in [1..1 -> Vals] /\ y \in [1..1 -> Vals]
    /\ cost = LET ps == VarParams(layers)
              IN  cost_fun(P, y, model_fun(P, X, ps), ps)
    /\ batch_size = 1
    /\ pc = "ready" /\ op = "init" /\ arg = None /\ ret = None /\ loc = None

\* the value of the op a method returned, or the method's error
RunOutcome(r, theta) == IF r.err # "none" THEN r ELSE Ok(Run(r.val, theta))

CallHv ==
    /\ pc = "ready"
    /\ \E v \in HvInputs(P) :
          /\ arg' = v
          /\ ret' = RunOutcome(get_Hv_op(layers, cost, v), Theta(params))
    /\ op' = "get_Hv_op" /\ pc' = "returned"
    /\ UNCHANGED <<layers, P, params, cost, X, y, batch_size, loc>>

\* get_H_op: tf.map_fn starts over the rows of tf.eye(P, P)
HBegin ==
    /\ pc = "ready"
    /\ pc' = "map_fn" /\ op' = "get_H_op" /\ arg' = None /\ ret' = None
    /\ loc' = [elems |-> Eye(P), out |-> [i \in 1..P |-> None], done |-> {}]
    /\ UNCHANGED <<layers, P, params, cost, X, y, batch_size>>

\* one iteration of tf.map_fn: the iterations run in any order
HRow ==
    /\ pc = "map_fn"
    /\ \E i \in (1..P) \ loc.done :
          LET r == RunOutcome(get_Hv_op(layers, cost, Tensor1(loc.elems[i])),
                              Theta(params))
          IN  IF r.err # "none"
              THEN /\ pc' = "returned" /\ ret' = r /\ loc' = None
              ELSE /\ loc' = [loc EXCEPT
                                !.out = MapFnStore(loc.out, i, loc.done, r.val.data),
                                !.done = loc.done \cup {i}]
                   /\ UNCHANGED <<pc, ret>>
    /\ UNCHANGED <<layers, P, params, cost, X, y, batch_size, op, arg>>

\* tf.map_fn stacks its output: the P x P matrix
HEnd ==
    /\ pc = "map_fn" /\ loc.done = 1..P
    /\ pc' = "returned" /\ ret' = Ok([shape |-> <<P, P>>, data |-> loc.out])
    /\ loc' = None
    /\ UNCHANGED <<layers, P, params, cost, X, y, batch_size, op, arg>>

NextH ==
    \/ Discard
    \/ CallHv
    \/ HBegin
    \/ HRow
    \/ HEnd

SpecH == InitH /\ [][NextH]_vars

\* the standard basis vector e_i of length n
BasisVector(n, i) == [j \in 1..n |-> IF j = i THEN 1 ELSE 0]

\* the value of get_Hv_op(v) at the current parameters
HvValue(v) ==
    RunOutcome(get_Hv_op(layers, cost, Tensor1(v)), Theta(params))

(* C3: get_H_op returns a P x P matrix whose row i is get_Hv_op(e_i), for  *)
(* every i: input row i goes to output row i whatever the order the P      *)
(* products are evaluated in.                                              *)
BasisConsistency ==
    /\ (op = "get_H_op" /\ pc = "map_fn") =>
          \A i \in loc.done :
              /\ HvValue(BasisVector(P, i)).err = "none"
              /\ loc.out[i] = HvValue(BasisVector(P, i)).val.data
    /\ (op = "get_H_op" /\ pc = "returned") =>
          /\ ret.err = "none"
          /\ ret.val.shape = <<P, P>>
          /\ \A i \in 1..P :
                /\ HvValue(BasisVector(P, i)).err = "none"
                /\ ret.val.data[i] = HvValue(BasisVector(P, i)).val.data

\* every row but the first evaluated, the first row therefore last, in a
\* Hessian whose rows differ
BasisConsistencyWitness ==
    /\ op = "get_H_op" /\ pc = "map_fn"
    /\ P >= 3 /\ loc.done = 2..P
    /\ loc.out[2] # loc.out[P]

\* a Hessian returned whose first two rows differ
BasisConsistencyReturned ==
    /\ op = "get_H_op" /\ pc = "returned" /\ ret.err = "none"
    /\ ret.val.data[1] # ret.val.data[2]

(* C4: for layers = [1, 1], x = 1, y = 0 and cost = (w*x + b - y)^2,       *)
(* get_H_op returns [[2, 2], [2, 2]] at every (w, b), and get_Hv_op(v)     *)
(* returns H*v for every v of length 2.                                    *)
QuadraticExact ==
    (layers = <<1, 1>> /\ X = <<1>> /\ y = <<0>> /\ pc = "returned") =>
        /\ op = "get_H_op" =>
              ret = Ok([shape |-> <<2, 2>>, data |-> <<<<2, 2>>, <<2, 2>>>>])
        /\ op = "get_Hv_op" =>
              ret = Ok(Tensor1(<<2 * arg.data[1] + 2 * arg.data[2],
                                 2 * arg.data[1] + 2 * arg.data[2]>>))

\* the Hessian of the scenario returned at parameters that are not zero
QuadraticExactWitness ==
    /\ layers = <<1, 1>> /\ X = <<1>> /\ y = <<0>>
    /\ op = "get_H_op" /\ pc = "returned" /\ ret.err = "none"
    /\ params[1].data[1][1] # 0 /\ params[2].data[1] # 0

(********************* the OPG approximation *******************************)
\* tf.identity(t)
Identity(t) == t

\* a split that drops the examples left over when b does not divide the length
SplitTruncating(s, b) ==
    LET k == Len(s) \div b
    IN  Ok(AsSeq([i \in 1..b |-> Slice(s, (i - 1) * k, i * k)]))

\* tf.split(s, b): b slices of equal length, an error when b does not
\* divide the length of s
Split(s, b) ==
    IF Len(s) % b # 0 THEN Err("ValueError")
    ELSE LET k == Len(s) \div b
         IN  Ok(AsSeq([i \in 1..b |-> Slice(s, (i - 1) * k, i * k)]))

\* a transpose that reads the rows of m from the last to the first
TransposeReversed(m, r, c) ==
    AsSeq([j \in 1..c |-> AsSeq([i \in 1..r |-> m[r + 1 - i][j]])])

\* tf.transpose(m) of a matrix of r rows and c columns
Transpose(m, r, c) ==
    AsSeq([j \in 1..c |-> AsSeq([i \in 1..r |-> m[i][j]])])

\* tf.matmul(a, b): a of r rows and n columns, b of n rows and c columns
MatMul(a, b, r, n, c) ==
    AsSeq([i \in 1..r |->
        AsSeq([j \in 1..c |-> SumTo([k \in 1..n |-> a[i][k] * b[k][j]], n)])])

\* m / b, elementwise: each quotient as the fraction [num, den]
Divide(m, b) ==
    AsSeq([i \in 1..Len(m) |->
        AsSeq([j \in 1..Len(m[i]) |-> [num |-> m[i][j], den |-> b]])])

\* the matrix of get_G_op: matmul(transpose(ex_grads), ex_grads) / batch_size
GramMatrix(ex_grads, b, n) ==
    Divide(MatMul(Transpose(ex_grads, b, n), ex_grads, n, b, n), b)

\* the private parameter copies of get_G_op, one list for each example
ExampleParams(ls, b) ==
    LET ps == VarParams(ls)
    IN  AsSeq([ex \in 1..b |-> AsSeq([l \in 1..Len(ls) |-> Identity(ps[l])])])

(********************** the OPG specification ******************************)
\* largest parameter count P of a schema in the OPG specification
MaxPG == 4
\* largest number of examples in X and y
MaxN == 2
\* the labels of the examples
Labels == {0, 1}

NoLocals ==
    [ex_params |-> None, ex_X |-> None, ex_y |-> None,
     ex_yhat_logits |-> None, ex_cost |-> None, ex_grads |-> None]

InitG ==
    /\ layers \in Schemas(MaxPG)
    /\ P = ParamCount(layers)
    /\ params \in PatternParams(layers)
    /\ batch_size \in 1..MaxB
    /\ \E n \in 1..MaxN : X \in [1..n -> Vals] /\ y \in [1..n -> Labels]
    /\ cost = None
    /\ pc = "ready" /\ op = "init" /\ arg = None /\ ret = None /\ loc = None

\* get_G_op: the parameter copies
GBegin ==
    /\ pc = "ready"
    /\ pc' = "split" /\ op' = "get_G_op" /\ arg' = None /\ ret' = None
    /\ loc' = [NoLocals EXCEPT !.ex_params = ExampleParams(layers, batch_size)]
    /\ UNCHANGED <<layers, P, params, cost, X, y, batch_size>>

\* get_G_op: X and y are split
GSplit ==
    /\ pc = "split"
    /\ LET sx == Split(X, batch_size)
           sy == Split(y, batch_size)
       IN  IF sx.err # "none" \/ sy.err # "none"
           THEN /\ pc' = "returned"
                /\ ret' = IF sx.err # "none" THEN sx ELSE sy
                /\ loc' = loc
           ELSE /\ pc' = "model"
                /\ loc' = [loc EXCEPT !.ex_X = sx.val, !.ex_y = sy.val]
                /\ ret' = ret
    /\ UNCHANGED <<layers, P, params, cost, X, y, batch_size, op, arg>>

\* get_G_op: the model function on each slice with its parameter copy
GModel ==
    /\ pc = "model"
    /\ pc' = "cost"
    /\ loc' = [loc EXCEPT !.ex_yhat_logits =
                 AsSeq([ex \in 1..Min(Len(loc.ex_X), Len(loc.ex_params)) |->
                          model_fun(P, loc.ex_X[ex], loc.ex_params[ex])])]
    /\ UNCHANGED <<layers, P, params, cost, X, y, batch_size, op, arg, ret>>

\* get_G_op: the cost function on each slice
GCost ==
    /\ pc = "cost"
    /\ pc' = "grads"
    /\ loc' = [loc EXCEPT !.ex_cost =
                 AsSeq([ex \in 1..Min(Len(loc.ex_y), Len(loc.ex_yhat_logits)) |->
                          cost_fun(P, loc.ex_y[ex], loc.ex_yhat_logits[ex],
                                   loc.ex_params[ex])])]
    /\ UNCHANGED <<layers, P, params, cost, X, y, batch_size, op, arg, ret>>

\* get_G_op: the flattened gradient of each slice's cost, stacked
GGrads ==
    /\ pc = "grads"
    /\ LET gs == [ex \in 1..batch_size |->
                    flatten(layers, Gradients(P, <<loc.ex_cost[ex]>>,
                                              loc.ex_params[ex]))]
       IN  IF \E ex \in 1..batch_size : gs[ex].err # "none"
           THEN /\ pc' = "returned"
                /\ ret' = gs[CHOOSE ex \in 1..batch_size :
                               /\ gs[ex].err # "none"
                               /\ \A e \in 1..(ex - 1) : gs[e].err = "none"]
                /\ loc' = loc
           ELSE /\ pc' = "matmul"
                /\ loc' = [loc EXCEPT !.ex_grads =
                             AsSeq([ex \in 1..batch_size |-> gs[ex].val.data])]
                /\ ret' = ret
    /\ UNCHANGED <<layers, P, params, cost, X, y, batch_size, op, arg>>

\* get_G_op: the matrix, at the parameters' values
GReturn ==
    /\ pc = "matmul"
    /\ LET theta == Theta(params)
           grads == AsSeq([ex \in 1..batch_size |->
                       AsSeq([k \in 1..P |-> Eval(loc.ex_grads[ex][k], theta)])])
       IN  ret' = Ok([shape |-> <<P, P>>,
                      data |-> GramMatrix(grads, batch_size, P)])
    /\ pc' = "returned"
    /\ UNCHANGED <<layers, P, params, cost, X, y, batch_size, op, arg, loc>>

NextG ==
    \/ Discard
    \/ GBegin
    \/ GSplit
    \/ GModel
    \/ GCost
    \/ GGrads
    \/ GReturn

SpecG == InitG /\ [][NextG]_vars

\* the vectors x of length n with entries -1, 0 and 1
TestVectors(n) == [1..n -> {-1, 0, 1}]

\* x^T G x as a fraction, the entries of G having the denominator den
QuadraticForm(G, x, n, den) ==
    [num |-> SumTo([i \in 1..n |->
                      IF x[i] = 0 THEN 0
                      ELSE x[i] * SumTo([j \in 1..n |-> G[i][j].num * x[j]], n)],
                   n),
     den |-> den]

NonNegative(q) == (q.num >= 0 /\ q.den > 0) \/ (q.num <= 0 /\ q.den < 0)

(* C5: the matrix get_G_op returns is symmetric and positive-semidefinite: *)
(* G[i][j] = G[j][i] for all i, j, and x^T G x >= 0 for every x.           *)
GramSymmetricPSD ==
    (op = "get_G_op" /\ pc = "returned" /\ ret.err = "none") =>
        LET G == ret.val.data
        IN  /\ ret.val.shape = <<P, P>>
            /\ \A i, j \in 1..P :
                  G[i][j] = G[j][i] /\ G[i][j].den = batch_size
            /\ \A x \in TestVectors(P) :
                  NonNegative(QuadraticForm(G, x, P, batch_size))

\* a matrix returned for two examples, with an entry off the diagonal that
\* is not zero
GramWitness ==
    /\ op = "get_G_op" /\ pc = "returned" /\ ret.err = "none"
    /\ batch_size = 2
    /\ ret.val.data[1][2].num # 0
    /\ ret.val.data[1][1].num # ret.val.data[2][2].num

(* C6: when the number of examples is not a multiple of batch_size,        *)
(* get_G_op fails, before any model, cost or gradient evaluation, and      *)
(* returns no matrix.                                                      *)
UnevenBatchRejected ==
    (op = "get_G_op" /\ Len(X) % batch_size # 0) =>
        /\ pc \in {"split", "returned"}
        /\ loc.ex_yhat_logits = None /\ loc.ex_cost = None /\ loc.ex_grads = None
        /\ pc = "returned" => ret.err # "none"

\* get_G_op returned with one example and a batch size of two
UnevenBatchWitness ==
    /\ op = "get_G_op" /\ pc = "returned"
    /\ Len(X) = 1 /\ batch_size = 2
    /\ ret.err = "ValueError"

(* C8: the private parameter copy get_G_op makes for each example holds    *)
(* all 2L tensors of the parameters, so that the flattened gradient by the *)
(* copy is defined and has length P.                                       *)
PrivateCopiesComplete ==
    (op = "get_G_op") =>
        /\ \A ex \in 1..batch_size :
              /\ Len(loc.ex_params[ex]) = 2 * NumLayers(layers)
              /\ SameList(loc.ex_params[ex], VarParams(layers))
        /\ (pc = "returned" /\ Len(X) % batch_size = 0) => ret.err = "none"
        /\ pc = "matmul" =>
              \A ex \in 1..batch_size : Len(loc.ex_grads[ex]) = P

\* what the code does: each copy holds the first len(layers) tensors
PrivateCopiesFirstEntries ==
    (op = "get_G_op") =>
        \A ex \in 1..batch_size :
            SameList(loc.ex_params[ex], Slice(VarParams(layers), 0, Len(layers)))

(* C9: X and y are each split into batch_size slices of one example each,  *)
(* and the gradient matrix has one row of length P for each example.       *)
OneExamplePerSlice ==
    (op = "get_G_op") =>
        /\ pc \in {"model", "cost", "grads", "matmul"} =>
              /\ Len(loc.ex_X) = batch_size /\ Len(loc.ex_y) = batch_size
              /\ \A i \in 1..batch_size :
                    Len(loc.ex_X[i]) = 1 /\ Len(loc.ex_y[i]) = 1
        /\ pc = "matmul" =>
              /\ Len(loc.ex_grads) = batch_size
              /\ \A i \in 1..batch_size : Len(loc.ex_grads[i]) = P
        /\ (pc = "returned" /\ Len(X) % batch_size = 0) => ret.err = "none"

====
